---------------------------- MODULE Spec2Model ----------------------------
(***************************************************************************)
(* Model of rusty_hangul's core: HangulLetter (hangul_letter.rs) and the   *)
(* whole-string wrapper Hangul (hangul.rs).                                *)
(*                                                                         *)
(* A char is its Unicode scalar value (a number); a String / &str is the   *)
(* sequence of its scalars, so `string.chars()` walks the sequence and     *)
(* `ch as u32` is the number itself.  Option<T> is a sequence of length 0  *)
(* (None) or 1 (Some).  The crate modules nfc, nfd, choseong, jungseong    *)
(* and jongseong are not part of the sources at hand; their operators are  *)
(* written from the specification (sections 3, 4.1, 4.2, 4.3).             *)
(***************************************************************************)
EXTENDS Integers, Sequences, FiniteSets

VARIABLES
  \* ---- HangulLetter under test (hangul_letter.rs)
  lpc,       \* "start" | "parsed" | "panicked"
  lentry,    \* which entry point was called: "none" | "parse" | "parse_from_char"
  lin,       \* the argument, as a sequence of scalars
  lres,      \* Option<HangulLetter> returned by the entry point
  lout,      \* the last derived query on the letter: [op, val]
  \* ---- one Hangul instance (hangul.rs)
  hpc,       \* "start" | "ready" | "panicked"
  input,     \* the argument of Hangul::new
  original,  \* Hangul.original
  char_units,          \* Hangul.char_units
  disassembled_cache,  \* OnceLock<String>: [state, value]
  choseong_cache,      \* OnceLock<String>: [state, value]
  threads,   \* the threads sharing the instance
  tpc,       \* each thread's position
  tret,      \* each thread's last returned value: [op, val]
  dRuns,     \* how often the disassemble closure ran to completion
  cRuns      \* how often the choseong closure ran to completion

letterVars == <<lpc, lentry, lin, lres, lout>>
hangulVars == <<hpc, input, original, char_units, disassembled_cache,
                choseong_cache, threads, tpc, tret, dRuns, cRuns>>
vars == <<lpc, lentry, lin, lres, lout, hpc, input, original, char_units,
          disassembled_cache, choseong_cache, threads, tpc, tret, dRuns, cRuns>>

-----------------------------------------------------------------------------
(* Bounds of the model *)

\* longest string handed to HangulLetter::parse
MaxLetterLen == 4
\* longest string handed to Hangul::new by a single caller
MaxLen == 3
\* longest string handed to Hangul::new when several threads share the instance
MaxConcLen == 1
\* number of threads sharing one instance
NumThreads == 2

-----------------------------------------------------------------------------
(* Unicode ranges (spec section 3) *)

SBase == 44032    \* U+AC00, first precomposed syllable
SLast == 55203    \* U+D7A3, last precomposed syllable
LBase == 4352     \* U+1100, first standalone leading jamo
LLast == 4370     \* U+1112
VBase == 4449     \* U+1161, first standalone vowel jamo
VLast == 4469     \* U+1175
TBase == 4519     \* U+11A7, trailing base (index 0 = no trailing consonant)
TFirst == 4520    \* U+11A8, first standalone trailing jamo
TLast == 4546     \* U+11C2
VCount == 21
TCount == 28

None == << >>
Some(x) == << x >>
IsSome(o) == Len(o) = 1
Unwrap(o) == o[1]

\* the characters strings are drawn from: range boundaries, jamo of each kind,
\* a compatibility jamo, ASCII, and syllables without / with simple / with
\* composite trailing consonant
LetterAlphabet ==
  { 65, 4352, 4370, 4371, 4448, 4449, 4469, 4520, 4537, 4546, 4547,
    12593, 44032, 44050, 45208 }
HangulAlphabet ==
  { 65, 4352, 4449, 4523, 12593, 44031, 44032, 44033, 44050, 55204 }
ConcAlphabet == { 65, 4352, 44032, 44050 }
\* every char handed to parse_from_char: the whole syllable block, its
\* neighbours, and the other characters above
LetterChars ==
  (SBase - 2 .. SLast + 2) \cup LetterAlphabet \cup HangulAlphabet \cup {0, 128578}

StringsUpTo(alphabet, n) == UNION { [1..k -> alphabet] : k \in 0..n }
LetterStrings == StringsUpTo(LetterAlphabet, MaxLetterLen)
HangulStrings == StringsUpTo(HangulAlphabet, MaxLen)
ConcStrings == StringsUpTo(ConcAlphabet, MaxConcLen)

-----------------------------------------------------------------------------
(* nfc.rs: NFC engine (spec 4.1, 4.4) *)

NFC_is_nfc_hangul_char(ch) == ch >= SBase /\ ch <= SLast

\* "if NFC engine confirms the whole string is a precomposed syllable";
\* test_invalid_input (hangul_letter.rs:234,236) fixes "" and "가나" as rejected
NFC_is_nfc_hangul(string) ==
  Len(string) = 1 /\ NFC_is_nfc_hangul_char(string[1])

(* nfd.rs: NFD engine (spec 4.2) *)

IsLeadingJamo(ch) == ch >= LBase /\ ch <= LLast
IsVowelJamo(ch) == ch >= VBase /\ ch <= VLast
IsTrailingJamo(ch) == ch >= TFirst /\ ch <= TLast

NFD_is_nfd_hangul(string) ==
  \/ /\ Len(string) = 2
     /\ IsLeadingJamo(string[1])
     /\ IsVowelJamo(string[2])
  \/ /\ Len(string) = 3
     /\ IsLeadingJamo(string[1])
     /\ IsVowelJamo(string[2])
     /\ IsTrailingJamo(string[3])

\* Option<NFD(cho, jung, Option<jong>)>
NFD_normalize(unicode) ==
  IF unicode < SBase \/ unicode > SLast THEN None
  ELSE LET index == unicode - SBase
           leadingIndex == index \div (VCount * TCount)
           vowelIndex == (index \div TCount) % VCount
           trailingIndex == index % TCount
       IN Some([cho |-> LBase + leadingIndex,
                jung |-> VBase + vowelIndex,
                jong |-> IF trailingIndex > 0 THEN Some(TBase + trailingIndex)
                         ELSE None])

(* choseong.rs, jungseong.rs, jongseong.rs: lookup tables (spec 4.3) *)

ChoseongTable ==
  << 12593, 12594, 12596, 12599, 12600, 12601, 12609, 12610, 12611, 12613,
     12614, 12615, 12616, 12617, 12618, 12619, 12620, 12621, 12622 >>

JungseongFirst == 12623   \* U+314F

\* per trailing consonant: the compatibility character, and the one or two
\* characters it disassembles to
JongseongTable ==
  << <<12593, <<12593>>>>,        <<12594, <<12594>>>>,
     <<12595, <<12593, 12613>>>>, <<12596, <<12596>>>>,
     <<12597, <<12596, 12616>>>>, <<12598, <<12596, 12622>>>>,
     <<12599, <<12599>>>>,        <<12601, <<12601>>>>,
     <<12602, <<12601, 12593>>>>, <<12603, <<12601, 12609>>>>,
     <<12604, <<12601, 12610>>>>, <<12605, <<12601, 12613>>>>,
     <<12606, <<12601, 12620>>>>, <<12607, <<12601, 12621>>>>,
     <<12608, <<12601, 12622>>>>, <<12609, <<12609>>>>,
     <<12610, <<12610>>>>,        <<12612, <<12610, 12613>>>>,
     <<12613, <<12613>>>>,        <<12614, <<12614>>>>,
     <<12615, <<12615>>>>,        <<12616, <<12616>>>>,
     <<12618, <<12618>>>>,        <<12619, <<12619>>>>,
     <<12620, <<12620>>>>,        <<12621, <<12621>>>>,
     <<12622, <<12622>>>> >>

\* `code` is the standalone-jamo codepoint the value was constructed from
Choseong_new(code) ==
  [code |-> code, compatibility_value |-> ChoseongTable[code - LBase + 1]]

Jungseong_new(code) ==
  [code |-> code, compatibility_value |-> JungseongFirst + (code - VBase)]

Jongseong_new(code) ==
  [code |-> code,
   compatibility_value |-> JongseongTable[code - TFirst + 1][1],
   disassembled |-> JongseongTable[code - TFirst + 1][2]]

Jongseong_append_disassembled(jong, output) == output \o jong.disassembled

-----------------------------------------------------------------------------
(* hangul_letter.rs *)

\* outcome of a call: it returned `value`, or it panicked (an unwrap on None,
\* an index past the end of a fixed array)
Returned(v) == [panicked |-> FALSE, value |-> v]
Panicked == [panicked |-> TRUE, value |-> None]

NulChar == 0   \* '\0', the filler of the fixed arrays

\* value_chars / unicode_codes: [char; 3] / [u32; 3] with the first n slots
\* taken from `string`
FixedArray(string, n) ==
  [i \in 1..3 |-> IF i <= n THEN string[i] ELSE NulChar]

\* parse with the precomposed test applied to the first character only
HangulLetter_parse_first_char(string) ==
  IF Len(string) > 0 /\ NFC_is_nfc_hangul_char(string[1])
  THEN LET ch == string[1]
           n == NFD_normalize(ch)
       IN Returned(Some(
            [value_chars |-> FixedArray(<<ch>>, 1),
             unicode_codes |-> FixedArray(<<ch>>, 1),
             len |-> 1,
             nfc |-> Some(ch),
             choseong |-> Choseong_new(Unwrap(n).cho),
             jungseong |-> Jungseong_new(Unwrap(n).jung),
             jongseong |-> IF IsSome(Unwrap(n).jong)
                           THEN Some(Jongseong_new(Unwrap(Unwrap(n).jong)))
                           ELSE None]))
  ELSE IF NFD_is_nfd_hangul(string)
  THEN Returned(Some(
         [value_chars |-> FixedArray(string, Len(string)),
          unicode_codes |-> FixedArray(string, Len(string)),
          len |-> Len(string),
          nfc |-> None,
          choseong |-> Choseong_new(string[1]),
          jungseong |-> Jungseong_new(string[2]),
          jongseong |-> IF Len(string) = 3
                        THEN Some(Jongseong_new(string[3]))
                        ELSE None]))
  ELSE Returned(None)

\* HangulLetter::parse(string: &str) -> Option<Self>
HangulLetter_parse(string) ==
  IF NFC_is_nfc_hangul(string)
  THEN IF Len(string) = 0
       THEN Panicked                       \* string.chars().next().unwrap()
       ELSE LET ch == string[1]
                unicode == ch
                n == NFD_normalize(unicode)
            IN IF ~IsSome(n)
               THEN Panicked               \* NFD::normalize(unicode).unwrap()
               ELSE Returned(Some(
                 [value_chars |-> FixedArray(<<ch>>, 1),
                  unicode_codes |-> FixedArray(<<unicode>>, 1),
                  len |-> 1,
                  nfc |-> Some(ch),
                  choseong |-> Choseong_new(Unwrap(n).cho),
                  jungseong |-> Jungseong_new(Unwrap(n).jung),
                  jongseong |-> IF IsSome(Unwrap(n).jong)
                                THEN Some(Jongseong_new(Unwrap(Unwrap(n).jong)))
                                ELSE None]))
  ELSE IF NFD_is_nfd_hangul(string)
  THEN IF Len(string) > 3
       THEN Panicked                       \* value_chars[index], index >= 3
       ELSE LET len == Len(string)
                value_chars == FixedArray(string, len)
                unicode_codes == FixedArray(string, len)
            IN Returned(Some(
                 [value_chars |-> value_chars,
                  unicode_codes |-> unicode_codes,
                  len |-> len,
                  nfc |-> None,
                  choseong |-> Choseong_new(value_chars[1]),
                  jungseong |-> Jungseong_new(value_chars[2]),
                  jongseong |-> IF len = 3
                                THEN Some(Jongseong_new(value_chars[3]))
                                ELSE None]))
  ELSE Returned(None)

\* parse_from_char that forgets the trailing consonant
HangulLetter_parse_from_char_no_jong(nfc_char) ==
  IF NFC_is_nfc_hangul_char(nfc_char)
  THEN LET n == NFD_normalize(nfc_char)
       IN Returned(Some(
            [value_chars |-> FixedArray(<<nfc_char>>, 1),
             unicode_codes |-> FixedArray(<<nfc_char>>, 1),
             len |-> 1,
             nfc |-> Some(nfc_char),
             choseong |-> Choseong_new(Unwrap(n).cho),
             jungseong |-> Jungseong_new(Unwrap(n).jung),
             jongseong |-> None]))
  ELSE Returned(None)

\* parse_from_char that decomposes without asking the NFC engine first
HangulLetter_parse_from_char_unguarded(nfc_char) ==
  LET n == NFD_normalize(nfc_char)
  IN IF ~IsSome(n)
     THEN Panicked
     ELSE Returned(Some(
            [value_chars |-> FixedArray(<<nfc_char>>, 1),
             unicode_codes |-> FixedArray(<<nfc_char>>, 1),
             len |-> 1,
             nfc |-> Some(nfc_char),
             choseong |-> Choseong_new(Unwrap(n).cho),
             jungseong |-> Jungseong_new(Unwrap(n).jung),
             jongseong |-> IF IsSome(Unwrap(n).jong)
                           THEN Some(Jongseong_new(Unwrap(Unwrap(n).jong)))
                           ELSE None]))

\* HangulLetter::parse_from_char(nfc_char: char) -> Option<Self>
HangulLetter_parse_from_char(nfc_char) ==
  IF NFC_is_nfc_hangul_char(nfc_char)
  THEN LET unicode == nfc_char
           n == NFD_normalize(unicode)
       IN IF ~IsSome(n)
          THEN Panicked                    \* NFD::normalize(unicode).unwrap()
          ELSE Returned(Some(
            [value_chars |-> FixedArray(<<nfc_char>>, 1),
             unicode_codes |-> FixedArray(<<unicode>>, 1),
             len |-> 1,
             nfc |-> Some(nfc_char),
             choseong |-> Choseong_new(Unwrap(n).cho),
             jungseong |-> Jungseong_new(Unwrap(n).jung),
             jongseong |-> IF IsSome(Unwrap(n).jong)
                           THEN Some(Jongseong_new(Unwrap(Unwrap(n).jong)))
                           ELSE None]))
  ELSE Returned(None)

\* value_chars that hands out the whole fixed array
HangulLetter_value_chars_whole(self) == self.value_chars

\* &self.value_chars[..self.len as usize]
HangulLetter_value_chars(self) == SubSeq(self.value_chars, 1, self.len)

\* &self.unicode_codes[..self.len as usize]
HangulLetter_unicode_codes(self) == SubSeq(self.unicode_codes, 1, self.len)

HangulLetter_value_nfc(self) == self.nfc

HangulLetter_value_string(self) == HangulLetter_value_chars(self)

\* append_disassembled that pushes the trailing consonant's own character
HangulLetter_append_disassembled_unsplit(self, output) ==
  LET o1 == Append(output, self.choseong.compatibility_value)
      o2 == Append(o1, self.jungseong.compatibility_value)
  IN IF IsSome(self.jongseong)
     THEN Append(o2, Unwrap(self.jongseong).compatibility_value)
     ELSE o2

\* append_disassembled(&self, output: &mut String): the new contents of output
HangulLetter_append_disassembled(self, output) ==
  LET o1 == Append(output, self.choseong.compatibility_value)
      o2 == Append(o1, self.jungseong.compatibility_value)
  IN IF IsSome(self.jongseong)
     THEN Jongseong_append_disassembled(Unwrap(self.jongseong), o2)
     ELSE o2

HangulLetter_disassemble(self) == HangulLetter_append_disassembled(self, << >>)

HangulLetter_has_batchim(self) == IsSome(self.jongseong)

NoOut == [op |-> "none", val |-> << >>]

\* a caller invokes HangulLetter::parse(s)
LetterParse ==
  /\ lpc = "start" /\ hpc = "start"
  /\ \E s \in LetterStrings :
      /\ LET r == HangulLetter_parse(s)
         IN /\ lpc' = IF r.panicked THEN "panicked" ELSE "parsed"
            /\ lres' = r.value
      /\ lentry' = "parse"
      /\ lin' = s
      /\ UNCHANGED <<lout>>
      /\ UNCHANGED hangulVars

\* a caller invokes HangulLetter::parse_from_char(c)
LetterParseFromChar ==
  /\ lpc = "start" /\ hpc = "start"
  /\ \E c \in LetterChars :
      /\ LET r == HangulLetter_parse_from_char(c)
         IN /\ lpc' = IF r.panicked THEN "panicked" ELSE "parsed"
            /\ lres' = r.value
      /\ lentry' = "parse_from_char"
      /\ lin' = <<c>>
      /\ UNCHANGED <<lout>>
      /\ UNCHANGED hangulVars

\* a derived query on the parsed letter
LetterQuery(op, val) ==
  /\ lpc = "parsed" /\ IsSome(lres)
  /\ lout' = [op |-> op, val |-> val]
  /\ UNCHANGED <<lpc, lentry, lin, lres>>
  /\ UNCHANGED hangulVars

LetterDisassemble == LetterQuery("disassemble", HangulLetter_disassemble(Unwrap(lres)))
LetterHasBatchim == LetterQuery("has_batchim", HangulLetter_has_batchim(Unwrap(lres)))
LetterValueChars == LetterQuery("value_chars", HangulLetter_value_chars(Unwrap(lres)))
LetterUnicodeCodes == LetterQuery("unicode_codes", HangulLetter_unicode_codes(Unwrap(lres)))
LetterValueNfc == LetterQuery("value_nfc", HangulLetter_value_nfc(Unwrap(lres)))
LetterValueString == LetterQuery("value_string", HangulLetter_value_string(Unwrap(lres)))

LetterNext ==
  \/ LetterParse
  \/ LetterParseFromChar
  \/ LetterDisassemble
  \/ LetterHasBatchim
  \/ LetterValueChars
  \/ LetterUnicodeCodes
  \/ LetterValueNfc
  \/ LetterValueString

-----------------------------------------------------------------------------
(* hangul.rs *)

\* the number of bytes of a char in a String (UTF-8)
Utf8Len(ch) == IF ch < 128 THEN 1 ELSE IF ch < 2048 THEN 2 ELSE IF ch < 65536 THEN 3 ELSE 4

\* the loop of Hangul::new: one CharUnit per scalar of `string`
RECURSIVE BuildCharUnits(_, _)
BuildCharUnits(string, units) ==
  IF string = << >> THEN Returned(units)
  ELSE LET ch == Head(string)
           r == HangulLetter_parse_from_char(ch)
       IN IF r.panicked THEN Panicked
          ELSE BuildCharUnits(Tail(string),
                              Append(units, [original |-> ch, hangul |-> r.value]))

\* Hangul::new that first tries the whole string as one letter
Hangul_new_recombining(string) ==
  LET whole == HangulLetter_parse(string)
      built == BuildCharUnits(string, << >>)
  IN Returned([char_units |-> IF IsSome(whole.value)
                              THEN << [original |-> string[1], hangul |-> whole.value] >>
                              ELSE built.value,
               original |-> string,
               disassembled_cache |-> [state |-> "unset", value |-> None],
               choseong_cache |-> [state |-> "unset", value |-> None]])

\* Hangul::new(string: &str) -> Self, as the fields of the new instance
Hangul_new(string) ==
  LET built == BuildCharUnits(string, << >>)
  IN IF built.panicked THEN Panicked
     ELSE Returned([char_units |-> built.value,
                    original |-> string,
                    disassembled_cache |-> [state |-> "unset", value |-> None],
                    choseong_cache |-> [state |-> "unset", value |-> None]])

Hangul_original(self_original) == self_original

\* len that counts the bytes of the source instead of its scalars
RECURSIVE Hangul_len_bytes(_)
Hangul_len_bytes(self_char_units) ==
  IF self_char_units = << >> THEN 0
  ELSE Utf8Len(Head(self_char_units).original) + Hangul_len_bytes(Tail(self_char_units))

Hangul_len(self_char_units) == Len(self_char_units)

Hangul_is_empty(self_char_units) == Len(self_char_units) = 0

\* the loop of disassemble_uncached over the units left, `result` so far
RECURSIVE DisassembleLoop(_, _)
DisassembleLoop(units, result) ==
  IF units = << >> THEN result
  ELSE LET unit == Head(units)
       IN DisassembleLoop(Tail(units),
            IF IsSome(unit.hangul)
            THEN HangulLetter_append_disassembled(Unwrap(unit.hangul), result)
            ELSE Append(result, unit.original))

\* disassemble_uncached without the pass-through arm
Hangul_disassemble_uncached_dropping(self_char_units) ==
  DisassembleLoop(SelectSeq(self_char_units, LAMBDA u : IsSome(u.hangul)), << >>)

Hangul_disassemble_uncached(self_char_units) ==
  IF Hangul_is_empty(self_char_units) THEN << >>
  ELSE DisassembleLoop(self_char_units, << >>)

\* the loop of choseong_uncached over the units left, `result` so far
RECURSIVE ChoseongLoop(_, _)
ChoseongLoop(units, result) ==
  IF units = << >> THEN result
  ELSE LET unit == Head(units)
       IN ChoseongLoop(Tail(units),
            IF IsSome(unit.hangul)
            THEN Append(result, Unwrap(unit.hangul).choseong.compatibility_value)
            ELSE Append(result, unit.original))

\* choseong_uncached that keeps only the recognised syllables
Hangul_choseong_uncached_dropping(self_char_units) ==
  ChoseongLoop(SelectSeq(self_char_units, LAMBDA u : IsSome(u.hangul)), << >>)

Hangul_choseong_uncached(self_char_units) ==
  IF Hangul_is_empty(self_char_units) THEN << >>
  ELSE ChoseongLoop(self_char_units, << >>)

\* OnceLock::get_or_init: the caller that finds the cell unset runs the
\* closure; one that finds it being initialised waits; one that finds it set
\* reads it
\* a cell that lets every caller who finds it not yet set run the closure
OnceLock_must_init_racy(cell) == cell.state # "set"

OnceLock_must_init(cell) == cell.state = "unset"
OnceLock_is_set(cell) == cell.state = "set"

NoRet == [op |-> "none", val |-> << >>]

\* a caller constructs the instance
HangulNew(strings) ==
  /\ hpc = "start" /\ lpc = "start"
  /\ \E s \in strings :
      /\ input' = s
      /\ LET r == Hangul_new(s)
         IN IF r.panicked
            THEN /\ hpc' = "panicked"
                 /\ UNCHANGED <<original, char_units, disassembled_cache, choseong_cache>>
            ELSE /\ hpc' = "ready"
                 /\ original' = r.value.original
                 /\ char_units' = r.value.char_units
                 /\ disassembled_cache' = r.value.disassembled_cache
                 /\ choseong_cache' = r.value.choseong_cache
      /\ UNCHANGED <<threads, tpc, tret, dRuns, cRuns>>
      /\ UNCHANGED letterVars

\* thread t returns `val` from query `op` without touching the instance
HangulQuery(t, op, val) ==
  /\ hpc = "ready" /\ tpc[t] = "idle"
  /\ tret' = [tret EXCEPT ![t] = [op |-> op, val |-> val]]
  /\ UNCHANGED <<hpc, input, original, char_units, disassembled_cache,
                 choseong_cache, threads, tpc, dRuns, cRuns>>
  /\ UNCHANGED letterVars

CallOriginal(t) == HangulQuery(t, "original", Hangul_original(original))
CallLen(t) == HangulQuery(t, "len", Hangul_len(char_units))
CallIsEmpty(t) == HangulQuery(t, "is_empty", Hangul_is_empty(char_units))

\* thread t enters disassemble() / get_choseong()
CallDisassemble(t) ==
  /\ hpc = "ready" /\ tpc[t] = "idle"
  /\ tpc' = [tpc EXCEPT ![t] = "d_get_or_init"]
  /\ UNCHANGED <<hpc, input, original, char_units, disassembled_cache,
                 choseong_cache, threads, tret, dRuns, cRuns>>
  /\ UNCHANGED letterVars

CallGetChoseong(t) ==
  /\ hpc = "ready" /\ tpc[t] = "idle"
  /\ tpc' = [tpc EXCEPT ![t] = "c_get_or_init"]
  /\ UNCHANGED <<hpc, input, original, char_units, disassembled_cache,
                 choseong_cache, threads, tret, dRuns, cRuns>>
  /\ UNCHANGED letterVars

\* disassembled_cache.get_or_init(..): t finds the cell unset and takes the
\* initialisation
DisassembleBeginInit(t) ==
  /\ tpc[t] = "d_get_or_init"
  /\ OnceLock_must_init(disassembled_cache)
  /\ disassembled_cache' = [disassembled_cache EXCEPT !.state = "running"]
  /\ tpc' = [tpc EXCEPT ![t] = "d_closure"]
  /\ UNCHANGED <<hpc, input, original, char_units, choseong_cache, threads,
                 tret, dRuns, cRuns>>
  /\ UNCHANGED letterVars

\* the closure || self.disassemble_uncached() returns and the cell is set; the
\* closure reads only fields no one writes and builds its String locally, so
\* its run is one step
DisassembleEndInit(t) ==
  /\ tpc[t] = "d_closure"
  /\ disassembled_cache' =
       [state |-> "set", value |-> Some(Hangul_disassemble_uncached(char_units))]
  /\ dRuns' = dRuns + 1
  /\ tpc' = [tpc EXCEPT ![t] = "d_clone"]
  /\ UNCHANGED <<hpc, input, original, char_units, choseong_cache, threads,
                 tret, cRuns>>
  /\ UNCHANGED letterVars

\* get_or_init finds the cell set
DisassembleHit(t) ==
  /\ tpc[t] = "d_get_or_init"
  /\ OnceLock_is_set(disassembled_cache)
  /\ tpc' = [tpc EXCEPT ![t] = "d_clone"]
  /\ UNCHANGED <<hpc, input, original, char_units, disassembled_cache,
                 choseong_cache, threads, tret, dRuns, cRuns>>
  /\ UNCHANGED letterVars

\* .clone(): t returns a copy of what the cell holds
DisassembleReturn(t) ==
  /\ tpc[t] = "d_clone"
  /\ tret' = [tret EXCEPT ![t] = [op |-> "disassemble",
                                  val |-> disassembled_cache.value]]
  /\ tpc' = [tpc EXCEPT ![t] = "idle"]
  /\ UNCHANGED <<hpc, input, original, char_units, disassembled_cache,
                 choseong_cache, threads, dRuns, cRuns>>
  /\ UNCHANGED letterVars

ChoseongBeginInit(t) ==
  /\ tpc[t] = "c_get_or_init"
  /\ OnceLock_must_init(choseong_cache)
  /\ choseong_cache' = [choseong_cache EXCEPT !.state = "running"]
  /\ tpc' = [tpc EXCEPT ![t] = "c_closure"]
  /\ UNCHANGED <<hpc, input, original, char_units, disassembled_cache, threads,
                 tret, dRuns, cRuns>>
  /\ UNCHANGED letterVars

ChoseongEndInit(t) ==
  /\ tpc[t] = "c_closure"
  /\ choseong_cache' =
       [state |-> "set", value |-> Some(Hangul_choseong_uncached(char_units))]
  /\ cRuns' = cRuns + 1
  /\ tpc' = [tpc EXCEPT ![t] = "c_clone"]
  /\ UNCHANGED <<hpc, input, original, char_units, disassembled_cache, threads,
                 tret, dRuns>>
  /\ UNCHANGED letterVars

ChoseongHit(t) ==
  /\ tpc[t] = "c_get_or_init"
  /\ OnceLock_is_set(choseong_cache)
  /\ tpc' = [tpc EXCEPT ![t] = "c_clone"]
  /\ UNCHANGED <<hpc, input, original, char_units, disassembled_cache,
                 choseong_cache, threads, tret, dRuns, cRuns>>
  /\ UNCHANGED letterVars

ChoseongReturn(t) ==
  /\ tpc[t] = "c_clone"
  /\ tret' = [tret EXCEPT ![t] = [op |-> "get_choseong",
                                  val |-> choseong_cache.value]]
  /\ tpc' = [tpc EXCEPT ![t] = "idle"]
  /\ UNCHANGED <<hpc, input, original, char_units, disassembled_cache,
                 choseong_cache, threads, dRuns, cRuns>>
  /\ UNCHANGED letterVars

\* any thread takes its next step
ThreadNext ==
  \/ \E t \in threads : CallOriginal(t)
  \/ \E t \in threads : CallLen(t)
  \/ \E t \in threads : CallIsEmpty(t)
  \/ \E t \in threads : CallDisassemble(t)
  \/ \E t \in threads : DisassembleBeginInit(t)
  \/ \E t \in threads : DisassembleEndInit(t)
  \/ \E t \in threads : DisassembleHit(t)
  \/ \E t \in threads : DisassembleReturn(t)
  \/ \E t \in threads : CallGetChoseong(t)
  \/ \E t \in threads : ChoseongBeginInit(t)
  \/ \E t \in threads : ChoseongEndInit(t)
  \/ \E t \in threads : ChoseongHit(t)
  \/ \E t \in threads : ChoseongReturn(t)

-----------------------------------------------------------------------------
(* Specifications *)

InitWith(ths) ==
  /\ lpc = "start" /\ lentry = "none" /\ lin = << >> /\ lres = None
  /\ lout = NoOut
  /\ hpc = "start" /\ input = << >> /\ original = << >> /\ char_units = << >>
  /\ disassembled_cache = [state |-> "unset", value |-> None]
  /\ choseong_cache = [state |-> "unset", value |-> None]
  /\ threads = ths
  /\ tpc = [t \in ths |-> "idle"]
  /\ tret = [t \in ths |-> NoRet]
  /\ dRuns = 0 /\ cRuns = 0

\* a single caller: either exercises HangulLetter directly, or builds one
\* Hangul and queries it
Init == InitWith({1})

Next ==
  \/ LetterNext
  \/ HangulNew(HangulStrings)
  \/ ThreadNext

Spec == Init /\ [][Next]_vars

\* NumThreads threads share one Hangul
InitConc == InitWith(1..NumThreads)

NextConc ==
  \/ HangulNew(ConcStrings)
  \/ ThreadNext

SpecConc == InitConc /\ [][NextConc]_vars

-----------------------------------------------------------------------------
(* Properties *)

IsSyllable(c) == c >= 44032 /\ c <= 55203          \* U+AC00..U+D7A3

\* what one scalar contributes to the disassembled string
ExpectedDisassembly(c) ==
  IF IsSyllable(c)
  THEN LET i == c - 44032
       IN << ChoseongTable[(i \div 588) + 1], 12623 + ((i \div 28) % 21) >>
          \o (IF i % 28 = 0 THEN << >> ELSE JongseongTable[i % 28][2])
  ELSE << c >>

\* what one scalar contributes to the choseong string
ExpectedChoseong(c) ==
  IF IsSyllable(c) THEN ChoseongTable[((c - 44032) \div 588) + 1] ELSE c

RECURSIVE ConcatDisassembly(_, _)
ConcatDisassembly(s, k) ==
  IF k = 0 THEN << >>
  ELSE ConcatDisassembly(s, k - 1) \o ExpectedDisassembly(s[k])

RECURSIVE ConcatChoseong(_, _)
ConcatChoseong(s, k) ==
  IF k = 0 THEN << >>
  ELSE Append(ConcatChoseong(s, k - 1), ExpectedChoseong(s[k]))

\* C1: every value disassemble() returns is the in-order concatenation, over
\* the scalars of the input, of the syllable's disassembly (leading, vowel,
\* trailing character(s)) for a precomposed syllable and of the scalar itself
\* otherwise.
C1_DisassembleIsConcatenation ==
  \A t \in threads :
    (hpc = "ready" /\ tret[t].op = "disassemble")
      => tret[t].val = Some(ConcatDisassembly(input, Len(input)))

\* "가A값" was disassembled: both syllables are expanded (the second with its
\* cluster split) and the A stays between them
C1_Witness ==
  /\ input = << 44032, 65, 44050 >>
  /\ \E t \in threads :
       /\ tret[t].op = "disassemble"
       /\ tret[t].val = Some(<< 12593, 12623, 65, 12593, 12623, 12610, 12613 >>)

\* C2: every value get_choseong() returns is the in-order concatenation of the
\* leading consonant's display character for a precomposed syllable and of the
\* scalar itself otherwise, and has exactly len() characters.
C2_ChoseongIsConcatenation ==
  \A t \in threads :
    (hpc = "ready" /\ tret[t].op = "get_choseong")
      => /\ tret[t].val = Some(ConcatChoseong(input, Len(input)))
         /\ Len(Unwrap(tret[t].val)) = Hangul_len(char_units)

\* "A값ᄀ" gave "Aㄱᄀ"
C2_Witness ==
  /\ input = << 65, 44050, 4352 >>
  /\ \E t \in threads :
       /\ tret[t].op = "get_choseong"
       /\ tret[t].val = Some(<< 65, 12593, 4352 >>)

\* C3: once constructed, original is the input, there is one CharUnit per
\* scalar of the input, and every original(), len() and is_empty() answer says
\* so, whatever queries ran before.
C3_OriginalAndLen ==
  hpc = "ready" =>
    /\ original = input
    /\ Len(char_units) = Len(input)
    /\ \A i \in 1..Len(input) : char_units[i].original = input[i]
    /\ \A t \in threads :
         /\ tret[t].op = "original" => tret[t].val = input
         /\ tret[t].op = "len" => tret[t].val = Len(input)
         /\ tret[t].op = "is_empty" => tret[t].val = (Len(input) = 0)

\* len() answered 3 for "A가ᄀ" (one recognised syllable, 7 bytes) after both
\* caches were filled
C3_Witness ==
  /\ input = << 65, 44032, 4352 >>
  /\ disassembled_cache.state = "set" /\ choseong_cache.state = "set"
  /\ \E t \in threads : tret[t].op = "len" /\ tret[t].val = 3

\* C4: for an input without any precomposed syllable, disassemble() and
\* get_choseong() return the input itself (an NFD jamo run is not recombined).
C4_NoSyllablePassthrough ==
  (hpc = "ready" /\ \A i \in 1..Len(input) : ~IsSyllable(input[i])) =>
    /\ \A t \in threads :
         tret[t].op \in {"disassemble", "get_choseong"} => tret[t].val = Some(input)
    /\ disassembled_cache.state = "set" => disassembled_cache.value = Some(input)
    /\ choseong_cache.state = "set" => choseong_cache.value = Some(input)

\* the NFD run U+1100 U+1161 U+11AB went through both queries
C4_Witness ==
  /\ input = << 4352, 4449, 4523 >>
  /\ disassembled_cache.value = Some(input)
  /\ \E t \in threads : tret[t].op = "get_choseong" /\ tret[t].val = Some(input)

\* C5: with several threads on one instance, each cache's closure runs at
\* most once, a thread about to clone finds the cell set, a set cell holds the
\* uncached computation, and every returned value is that computation (never
\* an unset cell).
C5_CachesInitialisedOnce ==
  /\ dRuns <= 1 /\ cRuns <= 1
  /\ disassembled_cache.state = "set"
       => disassembled_cache.value = Some(Hangul_disassemble_uncached(char_units))
  /\ choseong_cache.state = "set"
       => choseong_cache.value = Some(Hangul_choseong_uncached(char_units))
  /\ (dRuns = 1) = (disassembled_cache.state = "set")
  /\ (cRuns = 1) = (choseong_cache.state = "set")
  /\ \A t \in threads :
       /\ tpc[t] = "d_clone" => disassembled_cache.state = "set"
       /\ tpc[t] = "c_clone" => choseong_cache.state = "set"
       /\ tret[t].op = "disassemble"
            => tret[t].val = Some(Hangul_disassemble_uncached(char_units))
       /\ tret[t].op = "get_choseong"
            => tret[t].val = Some(Hangul_choseong_uncached(char_units))

\* two threads raced for the cache of "값": both have their value, the
\* closure ran once, and one of them is already back in get_choseong()
C5_Witness ==
  /\ input = << 44050 >>
  /\ dRuns = 1
  /\ \E t1, t2 \in threads :
       /\ t1 # t2
       /\ tret[t1].op = "disassemble" /\ tret[t2].op = "disassemble"
       /\ tpc[t1] = "c_closure" /\ tpc[t2] = "c_get_or_init"

\* C6: for every codepoint c of U+AC00..U+D7A3, parse_from_char(c) gives a
\* letter whose Choseong is built from 0x1100 + (c-0xAC00)/(21*28), whose
\* Jungseong from 0x1161 + ((c-0xAC00)/28) mod 21, whose Jongseong from
\* 0x11A7 + (c-0xAC00) mod 28 when that remainder is positive and is absent
\* when it is 0; the three codepoints lie in U+1100..U+1112, U+1161..U+1175,
\* U+11A8..U+11C2; has_batchim() is true iff the remainder is not 0.
C6_SyllableArithmetic ==
  (lentry = "parse_from_char" /\ IsSyllable(lin[1])) =>
    /\ lpc = "parsed" /\ IsSome(lres)
    /\ LET letter == Unwrap(lres)
           i == lin[1] - 44032
           l == 4352 + (i \div (21 * 28))
           v == 4449 + ((i \div 28) % 21)
           r == i % 28
       IN /\ letter.choseong = Choseong_new(l)
          /\ letter.choseong.code = l /\ l >= 4352 /\ l <= 4370
          /\ letter.jungseong = Jungseong_new(v)
          /\ letter.jungseong.code = v /\ v >= 4449 /\ v <= 4469
          /\ (r = 0) => letter.jongseong = None
          /\ (r > 0) => /\ letter.jongseong = Some(Jongseong_new(4519 + r))
                        /\ Unwrap(letter.jongseong).code >= 4520
                        /\ Unwrap(letter.jongseong).code <= 4546
          /\ lout.op = "has_batchim" => lout.val = (r # 0)

\* the last syllable of the block, U+D7A3 (힣), was parsed from a char and
\* asked for its batchim: leading U+1112, vowel U+1175, trailing U+11C2
C6_Witness ==
  /\ lentry = "parse_from_char" /\ lin = << 55203 >> /\ IsSome(lres)
  /\ Unwrap(lres).choseong.code = 4370
  /\ Unwrap(lres).jungseong.code = 4469
  /\ Unwrap(lres).jongseong = Some(Jongseong_new(4546))
  /\ lout.op = "has_batchim" /\ lout.val = TRUE

\* the whole-string shapes parse accepts
IsLetterShape(s) ==
  \/ Len(s) = 1 /\ IsSyllable(s[1])
  \/ /\ Len(s) \in {2, 3}
     /\ s[1] >= 4352 /\ s[1] <= 4370
     /\ s[2] >= 4449 /\ s[2] <= 4469
     /\ Len(s) = 3 => (s[3] >= 4520 /\ s[3] <= 4546)

\* "", lone leading jamo, lone vowel, lone compatibility jamo, two leading
\* jamo, two vowels, leading+trailing, a non-Hangul character, "가나"
RejectedExamples ==
  { << >>, << 4352 >>, << 4449 >>, << 12593 >>, << 4352, 4352 >>,
    << 4449, 4449 >>, << 4352, 4520 >>, << 65 >>, << 44032, 45208 >> }

\* C7: parse(s) returns a letter iff s as a whole is one precomposed syllable,
\* or a leading+vowel run, or a leading+vowel+trailing run; every other
\* string, the listed examples among them, gets the absent result.
C7_ParseAcceptsExactlyLetterShapes ==
  lentry = "parse" =>
    /\ lpc = "parsed"
    /\ IsSome(lres) = IsLetterShape(lin)
    /\ lin \in RejectedExamples => lres = None

\* parse("가나") returned the absent result
C7_Witness ==
  lentry = "parse" /\ lin = << 44032, 45208 >> /\ lpc = "parsed" /\ lres = None

\* the 11 composite trailing consonants (U+11AA, U+11AC, U+11AD,
\* U+11B0..U+11B6, U+11B9)
CompositeJongseong ==
  { 4522, 4524, 4525, 4528, 4529, 4530, 4531, 4532, 4533, 4534, 4537 }

\* C8: a parsed letter disassembles to 2 characters without trailing
\* consonant, 3 with a simple one, 4 with one of the 11 clusters, and the
\* first two are the leading and the vowel display characters.
C8_DisassembleLength ==
  (lpc = "parsed" /\ IsSome(lres) /\ lout.op = "disassemble") =>
    LET letter == Unwrap(lres)
        n == Len(lout.val)
    IN /\ n \in {2, 3, 4}
       /\ (n = 2) = (letter.jongseong = None)
       /\ (n = 4) = (/\ IsSome(letter.jongseong)
                     /\ Unwrap(letter.jongseong).code \in CompositeJongseong)
       /\ lout.val[1] = letter.choseong.compatibility_value
       /\ lout.val[2] = letter.jungseong.compatibility_value
       /\ lin = << 44050 >> => lout.val = << 12593, 12623, 12610, 12613 >>

\* the NFD run U+1100 U+1161 U+11B9 (cluster final) disassembled to 4 chars
C8_Witness ==
  /\ lentry = "parse" /\ lin = << 4352, 4449, 4537 >>
  /\ lout.op = "disassemble" /\ Len(lout.val) = 4

\* C9: a parsed letter has len 1, 2 or 3; len = 1 iff it has NFC origin
\* (value_nfc() is the single source character); len is 2 or 3 iff it has NFD
\* origin; for NFD origin len = 3 iff Jongseong is present; value_chars() and
\* unicode_codes() have len entries, the codes being those of the chars.
C9_LetterShape ==
  (lpc = "parsed" /\ IsSome(lres)) =>
    LET letter == Unwrap(lres)
    IN /\ letter.len \in {1, 2, 3}
       /\ letter.len = Len(lin)
       /\ (letter.len = 1) = IsSome(letter.nfc)
       /\ IsSome(letter.nfc) => letter.nfc = Some(lin[1])
       /\ (letter.len \in {2, 3}) = (letter.nfc = None)
       /\ letter.nfc = None => ((letter.len = 3) = IsSome(letter.jongseong))
       /\ lout.op = "value_nfc" => lout.val = letter.nfc
       /\ lout.op = "value_chars" => lout.val = lin
       /\ lout.op = "unicode_codes"
            => /\ Len(lout.val) = letter.len
               /\ \A k \in 1..letter.len : lout.val[k] = lin[k]

\* a 2-character NFD letter handed out its source characters
C9_Witness ==
  /\ lentry = "parse" /\ lin = << 4370, 4469 >> /\ IsSome(lres)
  /\ Unwrap(lres).len = 2 /\ Unwrap(lres).jongseong = None
  /\ lout.op = "value_chars" /\ lout.val = << 4370, 4469 >>

\* C10: no call of parse, parse_from_char or Hangul::new panics: each returns
\* a letter (an instance) or the absent result.
C10_NoPanic ==
  /\ lpc # "panicked"
  /\ hpc # "panicked"
  /\ lentry # "none" => lpc = "parsed"

\* parse_from_char on U+D7A4, the first codepoint past the syllable block,
\* returned the absent result
C10_Witness ==
  lentry = "parse_from_char" /\ lin = << 55204 >> /\ lpc = "parsed" /\ lres = None

=============================================================================
